---- MODULE Spec2Model ----
(***************************************************************************)
(* Seat inventory and ticket booking of the eventx backend.                *)
(*                                                                         *)
(* The persisted state is the Event collection (each event owns its seat   *)
(* map and the availableSeats counter) and the Ticket collection.  Every   *)
(* HTTP handler is a process that runs from one await to the next; the     *)
(* steps of different requests interleave.  The ticket routes run inside a *)
(* MongoDB session transaction (snapshot reads, write conflict on a        *)
(* document written by somebody else since the snapshot, writes visible at *)
(* commit); the event routes read a document, change it in memory and      *)
(* save the changed paths without any transaction.                         *)
(***************************************************************************)
EXTENDS Integers, Sequences, FiniteSets, TLC

VARIABLES events, tickets, procs, nreq, harness

vars == <<events, tickets, procs, nreq, harness>>

-----------------------------------------------------------------------------
(* Bounds of the model *)

MaxEvents == 1
MaxCreateSeats == 2
MaxRequests == 4
AllocSeats == 3

(* Program constants *)

MinTotalSeats == 1
MaxTotalSeats == 1000
SeatsPerRow == 10
CharCodeA == 65

-----------------------------------------------------------------------------
(* Values *)

Undefined == "undefined"
Null == "null"
Now == "now"
NoError == "none"

Admin == "admin"
Users == {"u1", "u2"}
(* A document that is not there *)
NoDoc == [absent |-> TRUE]
Requesters == Users \cup {Admin}
Procs == {1, 2}
EventIds == 1..MaxEvents
Prices == {10, 20}

Role(u) == IF u = Admin THEN "admin" ELSE "user"

(* req.user.id as the auth middleware sets it: user._id, an ObjectId.  The
   ids of the model (Users, Admin, the user of a ticket, the bookedBy of a
   seat) are ObjectId values. *)
ReqUserId(u) == u

(* ObjectId.prototype.toString(): the hex string of the id, a value of
   another type than the id *)
toString(oid) == "str(" \o oid \o ")"

(* a !== b of JavaScript: no conversion is made, so a string and an
   ObjectId are never equal *)
StrictNotEqual(a, b) == a # b

Min(a, b) == IF a < b THEN a ELSE b

(* Math.ceil(a / b) for positive integers *)
Ceil(a, b) == (a + b - 1) \div b

(* A seat label `${rowLetter}-${seat}`: the character code of the row and
   the index in the row. *)
SeatLabel(charCode, seat) == <<charCode, seat>>

(* A row letter that starts again at 'A' after 'Z' *)
RowLetterWrap(row) == CharCodeA + (row % 26)

(* String.fromCharCode(65 + row), kept as the character code *)
RowLetter(row) == CharCodeA + row

-----------------------------------------------------------------------------
(* Seat map generation: eventSchema.pre('save') *)

NewSeat(label) ==
  [seatNumber |-> label, isBooked |-> FALSE,
   bookedBy |-> Undefined, bookingDate |-> Undefined]

RECURSIVE RowSeats(_, _, _)
RowSeats(rowLetter, seat, seatsInRow) ==
  IF seat > seatsInRow THEN <<>>
  ELSE <<NewSeat(SeatLabel(rowLetter, seat))>>
         \o RowSeats(rowLetter, seat + 1, seatsInRow)

RECURSIVE GenerateRows(_, _, _)
GenerateRows(row, rows, totalSeats) ==
  IF row >= rows THEN <<>>
  ELSE RowSeats(RowLetter(row), 1, Min(SeatsPerRow, totalSeats - row * SeatsPerRow))
         \o GenerateRows(row + 1, rows, totalSeats)

GenerateSeats(totalSeats) ==
  GenerateRows(0, Ceil(totalSeats, SeatsPerRow), totalSeats)

(* The pre-save hook: regenerates only when totalSeats is a modified path *)
PreSave(doc, totalSeatsModified) ==
  IF totalSeatsModified
  THEN [doc EXCEPT !.availableSeats = doc.totalSeats,
                   !.seats = GenerateSeats(doc.totalSeats)]
  ELSE doc

-----------------------------------------------------------------------------
(* Seat Allocator: eventSchema.methods.bookSeat / cancelBooking, the part
   that runs on the loaded document before this.save() *)

(* this.seats.find(s => s.seatNumber === seatNumber): index of the first
   match, 0 when there is none *)
RECURSIVE FindFrom(_, _, _)
FindFrom(seats, seatNumber, i) ==
  IF i > Len(seats) THEN 0
  ELSE IF seats[i].seatNumber = seatNumber THEN i
  ELSE FindFrom(seats, seatNumber, i + 1)

FindSeat(seats, seatNumber) == FindFrom(seats, seatNumber, 1)

bookSeatNoCheck(doc, seatNumber, userId) ==
  LET i == FindSeat(doc.seats, seatNumber) IN
  IF i = 0 THEN [error |-> "Seat not found", doc |-> doc]
  ELSE [error |-> NoError,
        doc |-> [doc EXCEPT !.seats[i].isBooked = TRUE,
                            !.seats[i].bookedBy = userId,
                            !.seats[i].bookingDate = Now,
                            !.availableSeats = @ - 1]]

(* A bookSeat that leaves availableSeats as it is *)
bookSeatKeepCounter(doc, seatNumber, userId) ==
  LET i == FindSeat(doc.seats, seatNumber) IN
  IF i = 0 THEN [error |-> "Seat not found", doc |-> doc]
  ELSE IF doc.seats[i].isBooked
  THEN [error |-> "Seat already booked", doc |-> doc]
  ELSE [error |-> NoError,
        doc |-> [doc EXCEPT !.seats[i].isBooked = TRUE,
                            !.seats[i].bookedBy = userId,
                            !.seats[i].bookingDate = Now]]

bookSeat(doc, seatNumber, userId) ==
  LET i == FindSeat(doc.seats, seatNumber) IN
  IF i = 0 THEN [error |-> "Seat not found", doc |-> doc]
  ELSE IF doc.seats[i].isBooked
  THEN [error |-> "Seat already booked", doc |-> doc]
  ELSE [error |-> NoError,
        doc |-> [doc EXCEPT !.seats[i].isBooked = TRUE,
                            !.seats[i].bookedBy = userId,
                            !.seats[i].bookingDate = Now,
                            !.availableSeats = @ - 1]]

cancelBookingKeepOwner(doc, seatNumber) ==
  LET i == FindSeat(doc.seats, seatNumber) IN
  IF i = 0 THEN [error |-> "Seat not found", doc |-> doc]
  ELSE IF ~doc.seats[i].isBooked
  THEN [error |-> "Seat is not booked", doc |-> doc]
  ELSE [error |-> NoError,
        doc |-> [doc EXCEPT !.seats[i].isBooked = FALSE,
                            !.seats[i].bookingDate = Undefined,
                            !.availableSeats = @ + 1]]

cancelBooking(doc, seatNumber) ==
  LET i == FindSeat(doc.seats, seatNumber) IN
  IF i = 0 THEN [error |-> "Seat not found", doc |-> doc]
  ELSE IF ~doc.seats[i].isBooked
  THEN [error |-> "Seat is not booked", doc |-> doc]
  ELSE [error |-> NoError,
        doc |-> [doc EXCEPT !.seats[i].isBooked = FALSE,
                            !.seats[i].bookedBy = Undefined,
                            !.seats[i].bookingDate = Undefined,
                            !.availableSeats = @ + 1]]

-----------------------------------------------------------------------------
(* Documents and requests *)

NewEvent(totalSeats, price) ==
  [totalSeats |-> totalSeats, availableSeats |-> totalSeats, price |-> price,
   isActive |-> TRUE, occurred |-> FALSE, seats |-> <<>>]

NewTicket(eventId, userId, seatNumber, price) ==
  [event |-> eventId, user |-> userId, seatNumber |-> seatNumber,
   price |-> price, status |-> "booked"]

NoSeat == SeatLabel(0, 0)
NoResp == [status |-> 0, message |-> ""]

IdleProc ==
  [pc |-> "idle", kind |-> "none", user |-> Admin, event |-> 0, seat |-> NoSeat,
   ticket |-> 0, doc |-> NoDoc, stale |-> {}, wrote |-> {},
   resp |-> NoResp, error |-> NoError]

(* The seat labels a request may name: the seats of the largest event that
   can be created, and one label no event has *)
SeatInputs ==
  {GenerateSeats(MaxCreateSeats)[i].seatNumber : i \in 1..MaxCreateSeats}
    \cup {SeatLabel(RowLetter(25), SeatsPerRow)}

(* The body of an update: each path is given ({v}) or left out ({}) *)
UpdateBodies ==
  [totalSeats : {{}} \cup {{n} : n \in MinTotalSeats..MaxCreateSeats},
   price : {{}} \cup {{pr} : pr \in Prices}]

Given(path, old) == IF path = {} THEN old ELSE CHOOSE v \in path : TRUE

Exists(e) == e \in EventIds /\ events[e] # NoDoc

TxnPcs == {"b_saveTicket", "b_saveEvent", "b_commit",
           "c_saveEvent", "c_saveTicket", "c_commit"}

InTxn(r) == r.pc \in TxnPcs

(* A request enters with a fresh record; the slot keeps the last response *)
Begin(kind, u, e, s, t) ==
  [IdleProc EXCEPT !.kind = kind, !.user = u, !.event = e, !.seat = s, !.ticket = t]

(* res.status(status).json({message}), after which the handler is over; on
   the transactional routes the session was aborted or committed before *)
Respond(r, status, message, error) ==
  [r EXCEPT !.pc = "idle", !.doc = NoDoc, !.stale = {}, !.wrote = {},
            !.resp = [status |-> status, message |-> message],
            !.error = error]

(* An uncommitted transactional write holds the document *)
EventLocked(e) ==
  \E q \in Procs : InTxn(procs[q]) /\ procs[q].event = e /\ "event" \in procs[q].wrote

TicketLocked(t) ==
  \E q \in Procs : InTxn(procs[q]) /\ procs[q].ticket = t /\ "ticket" \in procs[q].wrote

(* A committed write to a document makes the snapshot of every other open
   transaction on it stale: its own write to the document will conflict *)
MarkEventStale(ps, writer, e) ==
  [q \in Procs |->
     IF q # writer /\ InTxn(ps[q]) /\ ps[q].event = e
     THEN [ps[q] EXCEPT !.stale = @ \cup {"event"}]
     ELSE ps[q]]

MarkTicketStale(ps, writer, t) ==
  [q \in Procs |->
     IF q # writer /\ InTxn(ps[q]) /\ ps[q].kind = "cancel" /\ ps[q].ticket = t
     THEN [ps[q] EXCEPT !.stale = @ \cup {"ticket"}]
     ELSE ps[q]]

(* A store that detects no conflict on the event document *)
EventWriteConflictNever(p) == FALSE

EventWriteConflict(p) ==
  \/ "event" \in procs[p].stale
  \/ \E q \in Procs \ {p} :
       InTxn(procs[q]) /\ procs[q].event = procs[p].event /\ "event" \in procs[q].wrote

TicketWriteConflict(p) ==
  \/ "ticket" \in procs[p].stale
  \/ \E q \in Procs \ {p} :
       InTxn(procs[q]) /\ procs[q].ticket = procs[p].ticket /\ "ticket" \in procs[q].wrote

(* Document validation run by save(): availableSeats has min 0 and the date
   validator asks for a date in the future *)
ValidEvent(doc, e) == doc.availableSeats >= 0 /\ ~events[e].occurred

(* save() of a loaded event whose seat i and counter were assigned: the
   update sets those paths of the stored document and leaves the others *)
ApplyDelta(stored, doc, i) ==
  [stored EXCEPT !.seats[i] = doc.seats[i],
                 !.availableSeats = doc.availableSeats]

SaveEventDoc(stored, doc, seatNumber) ==
  ApplyDelta(stored, doc, FindSeat(doc.seats, seatNumber))

(* Ticket.findOne({event, user, seatNumber, status: 'booked'}) *)
ExistingTicket(e, u, s) ==
  \E i \in 1..Len(tickets) :
    /\ tickets[i].event = e
    /\ tickets[i].user = u
    /\ tickets[i].seatNumber = s
    /\ tickets[i].status = "booked"

-----------------------------------------------------------------------------
(* Initial state: empty collections, no request in flight *)

NoHarness == [op |-> "none"]

Init ==
  /\ events = [e \in EventIds |-> NoDoc]
  /\ tickets = <<>>
  /\ procs = [p \in Procs |-> IdleProc]
  /\ nreq = 0
  /\ harness = NoHarness

CanStart(p) == procs[p].pc = "idle" /\ nreq < MaxRequests

-----------------------------------------------------------------------------
(* Event routes *)

(* POST /api/events *)
CreateEvent(p, u, totalSeats, price) ==
  /\ CanStart(p)
  /\ nreq' = nreq + 1
  /\ UNCHANGED <<tickets, harness>>
  /\ LET r == Begin("create", u, 0, NoSeat, 0) IN
     IF Role(u) # "admin"
     THEN /\ procs' = [procs EXCEPT ![p] = Respond(r, 403, "Admin access required", NoError)]
          /\ UNCHANGED events
     ELSE \E e \in EventIds :
            /\ events[e] = NoDoc
            /\ \A d \in EventIds : d < e => events[d] # NoDoc
            /\ events' = [events EXCEPT ![e] = PreSave(NewEvent(totalSeats, price), TRUE)]
            /\ procs' = [procs EXCEPT ![p] =
                           Respond([r EXCEPT !.event = e], 201, "created", NoError)]

(* An update that carries a new price over to the tickets of the event *)
UpdateEventReprice(p, u, e, body) ==
  /\ CanStart(p)
  /\ nreq' = nreq + 1
  /\ UNCHANGED harness
  /\ LET r == Begin("update", u, e, NoSeat, 0) IN
     IF Role(u) # "admin"
     THEN /\ procs' = [procs EXCEPT ![p] = Respond(r, 403, "Admin access required", NoError)]
          /\ UNCHANGED <<events, tickets>>
     ELSE IF ~Exists(e)
     THEN /\ procs' = [procs EXCEPT ![p] = Respond(r, 404, "Event not found", NoError)]
          /\ UNCHANGED <<events, tickets>>
     ELSE /\ ~EventLocked(e)
          /\ events' = [events EXCEPT ![e] =
               [@ EXCEPT !.totalSeats = Given(body.totalSeats, @),
                         !.price = Given(body.price, @)]]
          /\ tickets' = [t \in 1..Len(tickets) |->
                           IF tickets[t].event = e
                           THEN [tickets[t] EXCEPT !.price = Given(body.price, @)]
                           ELSE tickets[t]]
          /\ procs' = MarkEventStale([procs EXCEPT ![p] = Respond(r, 200, "updated", NoError)], p, e)

(* PUT /api/events/:id : findByIdAndUpdate sets the given paths; no save
   hook runs *)
UpdateEvent(p, u, e, body) ==
  /\ CanStart(p)
  /\ nreq' = nreq + 1
  /\ UNCHANGED <<tickets, harness>>
  /\ LET r == Begin("update", u, e, NoSeat, 0) IN
     IF Role(u) # "admin"
     THEN /\ procs' = [procs EXCEPT ![p] = Respond(r, 403, "Admin access required", NoError)]
          /\ UNCHANGED events
     ELSE IF ~Exists(e)
     THEN /\ procs' = [procs EXCEPT ![p] = Respond(r, 404, "Event not found", NoError)]
          /\ UNCHANGED events
     ELSE /\ ~EventLocked(e)
          /\ events' = [events EXCEPT ![e] =
               [@ EXCEPT !.totalSeats = Given(body.totalSeats, @),
                         !.price = Given(body.price, @)]]
          /\ procs' = MarkEventStale([procs EXCEPT ![p] = Respond(r, 200, "updated", NoError)], p, e)

(* A delete that also puts availableSeats back to totalSeats *)
DeleteEventResetCounter(p, u, e) ==
  /\ CanStart(p)
  /\ nreq' = nreq + 1
  /\ UNCHANGED <<tickets, harness>>
  /\ LET r == Begin("delete", u, e, NoSeat, 0) IN
     IF Role(u) # "admin"
     THEN /\ procs' = [procs EXCEPT ![p] = Respond(r, 403, "Admin access required", NoError)]
          /\ UNCHANGED events
     ELSE IF ~Exists(e)
     THEN /\ procs' = [procs EXCEPT ![p] = Respond(r, 404, "Event not found", NoError)]
          /\ UNCHANGED events
     ELSE IF ~ValidEvent(events[e], e)
     THEN /\ procs' = [procs EXCEPT ![p] =
                         Respond(r, 500, "Server error while deleting event", "ValidationError")]
          /\ UNCHANGED events
     ELSE /\ ~EventLocked(e)
          /\ events' = [events EXCEPT ![e] =
                          [@ EXCEPT !.isActive = FALSE,
                                    !.availableSeats = events[e].totalSeats]]
          /\ procs' = MarkEventStale(
                        [procs EXCEPT ![p] = Respond(r, 200, "Event deleted successfully", NoError)],
                        p, e)

(* DELETE /api/events/:id : soft delete through event.save() *)
DeleteEvent(p, u, e) ==
  /\ CanStart(p)
  /\ nreq' = nreq + 1
  /\ UNCHANGED <<tickets, harness>>
  /\ LET r == Begin("delete", u, e, NoSeat, 0) IN
     IF Role(u) # "admin"
     THEN /\ procs' = [procs EXCEPT ![p] = Respond(r, 403, "Admin access required", NoError)]
          /\ UNCHANGED events
     ELSE IF ~Exists(e)
     THEN /\ procs' = [procs EXCEPT ![p] = Respond(r, 404, "Event not found", NoError)]
          /\ UNCHANGED events
     ELSE IF ~ValidEvent(events[e], e)
     THEN /\ procs' = [procs EXCEPT ![p] =
                         Respond(r, 500, "Server error while deleting event", "ValidationError")]
          /\ UNCHANGED events
     ELSE /\ ~EventLocked(e)
          /\ events' = [events EXCEPT ![e].isActive = FALSE]
          /\ procs' = MarkEventStale(
                        [procs EXCEPT ![p] = Respond(r, 200, "Event deleted successfully", NoError)],
                        p, e)

(* The start time of an event goes by *)
DatePasses(e) ==
  /\ Exists(e)
  /\ ~events[e].occurred
  /\ events' = [events EXCEPT ![e].occurred = TRUE]
  /\ UNCHANGED <<tickets, procs, nreq, harness>>

(* POST /api/events/:id/reserve-seat, up to the await of this.save() *)
ReserveSeatRead(p, u, e, s) ==
  /\ CanStart(p)
  /\ nreq' = nreq + 1
  /\ UNCHANGED <<events, tickets, harness>>
  /\ LET r == Begin("reserve", u, e, s, 0) IN
     IF ~Exists(e)
     THEN procs' = [procs EXCEPT ![p] = Respond(r, 404, "Event not found", NoError)]
     ELSE IF ~events[e].isActive
     THEN procs' = [procs EXCEPT ![p] = Respond(r, 404, "Event is no longer available", NoError)]
     ELSE IF events[e].occurred
     THEN procs' = [procs EXCEPT ![p] = Respond(r, 400, "Event has already occurred", NoError)]
     ELSE LET b == bookSeat(events[e], s, u) IN
          IF b.error # NoError
          THEN procs' = [procs EXCEPT ![p] = Respond(r, 400, b.error, b.error)]
          ELSE procs' = [procs EXCEPT ![p] = [r EXCEPT !.pc = "r_save", !.doc = b.doc]]

(* this.save() of bookSeat and the response *)
ReserveSeatSave(p) ==
  /\ procs[p].pc = "r_save"
  /\ UNCHANGED <<tickets, nreq, harness>>
  /\ LET r == procs[p] IN
     IF ~ValidEvent(r.doc, r.event)
     THEN /\ procs' = [procs EXCEPT ![p] =
                         Respond(r, 500, "Server error while reserving seat", "ValidationError")]
          /\ UNCHANGED events
     ELSE /\ ~EventLocked(r.event)
          /\ events' = [events EXCEPT ![r.event] = SaveEventDoc(@, r.doc, r.seat)]
          /\ procs' = MarkEventStale(
                        [procs EXCEPT ![p] = Respond(r, 200, "Seat reserved successfully", NoError)],
                        p, r.event)

(* POST /api/events/:id/cancel-seat, up to the await of this.save().  The
   comparison of seat.bookedBy.toString() with req.user.id is between a
   string and an ObjectId: it is unequal for every requester. *)
CancelSeatRead(p, u, e, s) ==
  /\ CanStart(p)
  /\ nreq' = nreq + 1
  /\ UNCHANGED <<events, tickets, harness>>
  /\ LET r == Begin("cancelseat", u, e, s, 0) IN
     IF ~Exists(e)
     THEN procs' = [procs EXCEPT ![p] = Respond(r, 404, "Event not found", NoError)]
     ELSE LET i == FindSeat(events[e].seats, s) IN
          IF i = 0
          THEN procs' = [procs EXCEPT ![p] = Respond(r, 404, "Seat not found", NoError)]
          ELSE IF ~events[e].seats[i].isBooked
          THEN procs' = [procs EXCEPT ![p] = Respond(r, 400, "Seat is not booked", NoError)]
          ELSE IF StrictNotEqual(toString(events[e].seats[i].bookedBy), ReqUserId(u))
          THEN procs' = [procs EXCEPT ![p] =
                           Respond(r, 403, "You can only cancel your own reservations", NoError)]
          ELSE procs' = [procs EXCEPT ![p] =
                           [r EXCEPT !.pc = "s_save", !.doc = cancelBooking(events[e], s).doc]]

(* this.save() of cancelBooking and the response *)
CancelSeatSave(p) ==
  /\ procs[p].pc = "s_save"
  /\ UNCHANGED <<tickets, nreq, harness>>
  /\ LET r == procs[p] IN
     IF ~ValidEvent(r.doc, r.event)
     THEN /\ procs' = [procs EXCEPT ![p] =
                         Respond(r, 500, "Server error while cancelling reservation", "ValidationError")]
          /\ UNCHANGED events
     ELSE /\ ~EventLocked(r.event)
          /\ events' = [events EXCEPT ![r.event] = SaveEventDoc(@, r.doc, r.seat)]
          /\ procs' = MarkEventStale(
                        [procs EXCEPT ![p] = Respond(r, 200, "Reservation cancelled successfully", NoError)],
                        p, r.event)

-----------------------------------------------------------------------------
(* Ticket routes *)

(* catch (error): abortTransaction, then 400 for a ValidationError and 500
   for the rest *)
BookCatch(r, error) ==
  IF error = "ValidationError"
  THEN Respond(r, 400, "Validation error", error)
  ELSE Respond(r, 500, "Server error while booking ticket", error)

CancelCatch(r, error) ==
  Respond(r, 500, "Server error while cancelling ticket", error)

(* A seat assignment that leaves the owner of the seat unset *)
BookMutateNoOwner(doc, i, userId) ==
  [doc EXCEPT !.seats[i].isBooked = TRUE,
              !.seats[i].bookingDate = Now,
              !.availableSeats = @ - 1]

(* The seat assignment of the booking handler on the loaded event *)
BookMutate(doc, i, userId) ==
  [doc EXCEPT !.seats[i].isBooked = TRUE,
              !.seats[i].bookedBy = userId,
              !.seats[i].bookingDate = Now,
              !.availableSeats = @ - 1]

(* The seat release of the cancellation handler on the loaded event *)
CancelMutate(doc, i) ==
  [doc EXCEPT !.seats[i].isBooked = FALSE,
              !.seats[i].bookedBy = Null,
              !.seats[i].bookingDate = Null,
              !.availableSeats = @ + 1]

(* A booking handler that saves the ticket, outside the transaction, before
   it looks at the seat *)
BookReadTicketFirst(p, u, e, s) ==
  /\ CanStart(p)
  /\ nreq' = nreq + 1
  /\ UNCHANGED <<events, harness>>
  /\ LET r == Begin("book", u, e, s, 0) IN
     IF ~Exists(e) \/ (Exists(e) /\ ~events[e].isActive)
     THEN /\ procs' = [procs EXCEPT ![p] = Respond(r, 404, "Event not found or not active", NoError)]
          /\ UNCHANGED tickets
     ELSE IF events[e].occurred
     THEN /\ procs' = [procs EXCEPT ![p] = Respond(r, 400, "Event has already occurred", NoError)]
          /\ UNCHANGED tickets
     ELSE LET i == FindSeat(events[e].seats, s) IN
          IF i = 0
          THEN /\ procs' = [procs EXCEPT ![p] = Respond(r, 400, "Seat not found", NoError)]
               /\ tickets' = Append(tickets, NewTicket(e, u, s, events[e].price))
          ELSE IF events[e].seats[i].isBooked
          THEN /\ procs' = [procs EXCEPT ![p] = Respond(r, 400, "Seat already booked", NoError)]
               /\ tickets' = Append(tickets, NewTicket(e, u, s, events[e].price))
          ELSE IF ExistingTicket(e, u, s)
          THEN /\ procs' = [procs EXCEPT ![p] = Respond(r, 400, "You already booked this seat", NoError)]
               /\ UNCHANGED tickets
          ELSE /\ procs' = [procs EXCEPT ![p] =
                              [r EXCEPT !.pc = "b_saveTicket",
                                        !.doc = BookMutate(events[e], i, u)]]
               /\ UNCHANGED tickets

(* A booking handler that looks for the seat before it looks at the date *)
BookReadSeatFirst(p, u, e, s) ==
  /\ CanStart(p)
  /\ nreq' = nreq + 1
  /\ UNCHANGED <<events, tickets, harness>>
  /\ LET r == Begin("book", u, e, s, 0) IN
     IF ~Exists(e) \/ (Exists(e) /\ ~events[e].isActive)
     THEN procs' = [procs EXCEPT ![p] = Respond(r, 404, "Event not found or not active", NoError)]
     ELSE LET i == FindSeat(events[e].seats, s) IN
          IF i = 0
          THEN procs' = [procs EXCEPT ![p] = Respond(r, 400, "Seat not found", NoError)]
          ELSE IF events[e].seats[i].isBooked
          THEN procs' = [procs EXCEPT ![p] = Respond(r, 400, "Seat already booked", NoError)]
          ELSE IF events[e].occurred
          THEN procs' = [procs EXCEPT ![p] = Respond(r, 400, "Event has already occurred", NoError)]
          ELSE IF ExistingTicket(e, u, s)
          THEN procs' = [procs EXCEPT ![p] = Respond(r, 400, "You already booked this seat", NoError)]
          ELSE procs' = [procs EXCEPT ![p] =
                           [r EXCEPT !.pc = "b_saveTicket",
                                     !.doc = BookMutate(events[e], i, u)]]

(* A booking handler that does not look at seat.isBooked *)
BookReadNoSeatCheck(p, u, e, s) ==
  /\ CanStart(p)
  /\ nreq' = nreq + 1
  /\ UNCHANGED <<events, tickets, harness>>
  /\ LET r == Begin("book", u, e, s, 0) IN
     IF ~Exists(e) \/ (Exists(e) /\ ~events[e].isActive)
     THEN procs' = [procs EXCEPT ![p] = Respond(r, 404, "Event not found or not active", NoError)]
     ELSE IF events[e].occurred
     THEN procs' = [procs EXCEPT ![p] = Respond(r, 400, "Event has already occurred", NoError)]
     ELSE LET i == FindSeat(events[e].seats, s) IN
          IF i = 0
          THEN procs' = [procs EXCEPT ![p] = Respond(r, 400, "Seat not found", NoError)]
          ELSE IF ExistingTicket(e, u, s)
          THEN procs' = [procs EXCEPT ![p] = Respond(r, 400, "You already booked this seat", NoError)]
          ELSE procs' = [procs EXCEPT ![p] =
                           [r EXCEPT !.pc = "b_saveTicket",
                                     !.doc = BookMutate(events[e], i, u)]]

(* POST /api/tickets/book: the reads of the transaction, which see one
   snapshot, the checks, and the in-memory ticket and seat change *)
BookRead(p, u, e, s) ==
  /\ CanStart(p)
  /\ nreq' = nreq + 1
  /\ UNCHANGED <<events, tickets, harness>>
  /\ LET r == Begin("book", u, e, s, 0) IN
     IF ~Exists(e) \/ (Exists(e) /\ ~events[e].isActive)
     THEN procs' = [procs EXCEPT ![p] = Respond(r, 404, "Event not found or not active", NoError)]
     ELSE IF events[e].occurred
     THEN procs' = [procs EXCEPT ![p] = Respond(r, 400, "Event has already occurred", NoError)]
     ELSE LET i == FindSeat(events[e].seats, s) IN
          IF i = 0
          THEN procs' = [procs EXCEPT ![p] = Respond(r, 400, "Seat not found", NoError)]
          ELSE IF events[e].seats[i].isBooked
          THEN procs' = [procs EXCEPT ![p] = Respond(r, 400, "Seat already booked", NoError)]
          ELSE IF ExistingTicket(e, u, s)
          THEN procs' = [procs EXCEPT ![p] = Respond(r, 400, "You already booked this seat", NoError)]
          ELSE procs' = [procs EXCEPT ![p] =
                           [r EXCEPT !.pc = "b_saveTicket",
                                     !.doc = BookMutate(events[e], i, u)]]

(* ticket.save() without the session: the ticket is written at once *)
BookSaveTicketNoSession(p) ==
  /\ procs[p].pc = "b_saveTicket"
  /\ UNCHANGED <<events, nreq, harness>>
  /\ tickets' = Append(tickets, NewTicket(procs[p].event, procs[p].user,
                                          procs[p].seat, procs[p].doc.price))
  /\ procs' = [procs EXCEPT ![p] = [@ EXCEPT !.pc = "b_saveEvent"]]

(* await ticket.save({ session }) *)
BookSaveTicket(p) ==
  /\ procs[p].pc = "b_saveTicket"
  /\ UNCHANGED <<events, tickets, nreq, harness>>
  /\ \/ procs' = [procs EXCEPT ![p] = [@ EXCEPT !.pc = "b_saveEvent",
                                                !.wrote = @ \cup {"newticket"}]]
     \/ procs' = [procs EXCEPT ![p] = BookCatch(@, "Fault")]

(* await event.save({ session }) *)
BookSaveEvent(p) ==
  /\ procs[p].pc = "b_saveEvent"
  /\ UNCHANGED <<events, tickets, nreq, harness>>
  /\ LET r == procs[p] IN
     IF ~ValidEvent(r.doc, r.event)
     THEN procs' = [procs EXCEPT ![p] = BookCatch(r, "ValidationError")]
     ELSE IF EventWriteConflict(p)
     THEN procs' = [procs EXCEPT ![p] = BookCatch(r, "WriteConflict")]
     ELSE \/ procs' = [procs EXCEPT ![p] = [r EXCEPT !.pc = "b_commit",
                                                     !.wrote = @ \cup {"event"}]]
          \/ procs' = [procs EXCEPT ![p] = BookCatch(r, "Fault")]

(* await session.commitTransaction(): the ticket and the event become
   visible together *)
BookCommit(p) ==
  /\ procs[p].pc = "b_commit"
  /\ UNCHANGED <<nreq, harness>>
  /\ LET r == procs[p] IN
     \/ /\ tickets' = Append(tickets, NewTicket(r.event, r.user, r.seat, r.doc.price))
        /\ events' = [events EXCEPT ![r.event] = SaveEventDoc(@, r.doc, r.seat)]
        /\ procs' = MarkEventStale(
                      [procs EXCEPT ![p] = [r EXCEPT !.pc = "b_respond",
                                                     !.ticket = Len(tickets) + 1,
                                                     !.wrote = {}, !.stale = {}]],
                      p, r.event)
     \/ /\ procs' = [procs EXCEPT ![p] = BookCatch(r, "Fault")]
        /\ UNCHANGED <<events, tickets>>

(* Ticket.findById(...).populate(...) and the 201; when the read throws, the
   catch block calls abortTransaction on the committed session, which
   throws in turn, and no response is sent *)
BookRespond(p) ==
  /\ procs[p].pc = "b_respond"
  /\ UNCHANGED <<events, tickets, nreq, harness>>
  /\ \/ procs' = [procs EXCEPT ![p] = Respond(@, 201, "Ticket booked successfully", NoError)]
     \/ procs' = [procs EXCEPT ![p] = Respond(@, 0, "", "Fault")]

(* POST /api/tickets/cancel/:ticketId: the reads of the transaction, the
   checks and the in-memory seat release.  The comparison of
   ticket.user.toString() with req.user.id is between a string and an
   ObjectId: it is unequal for every requester. *)
CancelRead(p, u, t) ==
  /\ CanStart(p)
  /\ nreq' = nreq + 1
  /\ UNCHANGED <<events, tickets, harness>>
  /\ LET r == Begin("cancel", u, 0, NoSeat, t) IN
     IF t > Len(tickets)
     THEN procs' = [procs EXCEPT ![p] = Respond(r, 404, "Ticket not found", NoError)]
     ELSE IF StrictNotEqual(toString(tickets[t].user), ReqUserId(u))
     THEN procs' = [procs EXCEPT ![p] = Respond(r, 403, "Not authorized to cancel this ticket", NoError)]
     ELSE IF tickets[t].status = "cancelled"
     THEN procs' = [procs EXCEPT ![p] = Respond(r, 400, "Ticket already cancelled", NoError)]
     ELSE LET e == tickets[t].event
              q == [r EXCEPT !.event = e, !.seat = tickets[t].seatNumber]
              i == IF Exists(e) THEN FindSeat(events[e].seats, tickets[t].seatNumber) ELSE 0
          IN IF i # 0
             THEN procs' = [procs EXCEPT ![p] =
                              [q EXCEPT !.pc = "c_saveEvent",
                                        !.doc = CancelMutate(events[e], i)]]
             ELSE procs' = [procs EXCEPT ![p] = [q EXCEPT !.pc = "c_saveTicket"]]

(* await event.save({ session }) *)
CancelSaveEvent(p) ==
  /\ procs[p].pc = "c_saveEvent"
  /\ UNCHANGED <<events, tickets, nreq, harness>>
  /\ LET r == procs[p] IN
     IF ~ValidEvent(r.doc, r.event)
     THEN procs' = [procs EXCEPT ![p] = CancelCatch(r, "ValidationError")]
     ELSE IF EventWriteConflict(p)
     THEN procs' = [procs EXCEPT ![p] = CancelCatch(r, "WriteConflict")]
     ELSE \/ procs' = [procs EXCEPT ![p] = [r EXCEPT !.pc = "c_saveTicket",
                                                     !.wrote = @ \cup {"event"}]]
          \/ procs' = [procs EXCEPT ![p] = CancelCatch(r, "Fault")]

(* ticket.status = 'cancelled'; await ticket.save({ session }) *)
CancelSaveTicket(p) ==
  /\ procs[p].pc = "c_saveTicket"
  /\ UNCHANGED <<events, tickets, nreq, harness>>
  /\ LET r == procs[p] IN
     IF TicketWriteConflict(p)
     THEN procs' = [procs EXCEPT ![p] = CancelCatch(r, "WriteConflict")]
     ELSE \/ procs' = [procs EXCEPT ![p] = [r EXCEPT !.pc = "c_commit",
                                                     !.wrote = @ \cup {"ticket"}]]
          \/ procs' = [procs EXCEPT ![p] = CancelCatch(r, "Fault")]

(* await session.commitTransaction() and the response.  cancelledAt is no
   path of ticketSchema, so the assignment to it is not stored: the status
   is the only path of the ticket that changes. *)
CancelCommit(p) ==
  /\ procs[p].pc = "c_commit"
  /\ UNCHANGED <<nreq, harness>>
  /\ LET r == procs[p] IN
     \/ /\ tickets' = [tickets EXCEPT ![r.ticket].status = "cancelled"]
        /\ events' = IF "event" \in r.wrote
                     THEN [events EXCEPT ![r.event] = SaveEventDoc(@, r.doc, r.seat)]
                     ELSE events
        /\ procs' = MarkTicketStale(
                      MarkEventStale(
                        [procs EXCEPT ![p] = Respond(r, 200, "Ticket cancelled successfully", NoError)],
                        p, IF "event" \in r.wrote THEN r.event ELSE 0),
                      p, r.ticket)
     \/ /\ procs' = [procs EXCEPT ![p] = CancelCatch(r, "Fault")]
        /\ UNCHANGED <<events, tickets>>

(* POST /api/tickets/verify, up to the await of ticket.save() *)
VerifyRead(p, u, t) ==
  /\ CanStart(p)
  /\ nreq' = nreq + 1
  /\ UNCHANGED <<events, tickets, harness>>
  /\ LET r == Begin("verify", u, 0, NoSeat, t) IN
     IF Role(u) # "admin"
     THEN procs' = [procs EXCEPT ![p] = Respond(r, 403, "Admin access required", NoError)]
     ELSE IF t > Len(tickets)
     THEN procs' = [procs EXCEPT ![p] = Respond(r, 404, "Ticket not found", NoError)]
     ELSE IF tickets[t].status # "booked"
     THEN procs' = [procs EXCEPT ![p] = Respond(r, 400, "Ticket is " \o tickets[t].status, NoError)]
     ELSE procs' = [procs EXCEPT ![p] = [r EXCEPT !.pc = "v_save"]]

(* A verification that toggles the check-in *)
VerifySaveUncheck(p) ==
  /\ procs[p].pc = "v_save"
  /\ ~TicketLocked(procs[p].ticket)
  /\ UNCHANGED <<events, nreq, harness>>
  /\ tickets' = [tickets EXCEPT ![procs[p].ticket].status =
                    IF @ = "checked-in" THEN "booked" ELSE "checked-in"]
  /\ procs' = MarkTicketStale(
                [procs EXCEPT ![p] = Respond(@, 200, "Ticket verified successfully", NoError)],
                p, procs[p].ticket)

(* ticket.status = 'checked-in'; await ticket.save(), outside any
   transaction, and the response.  checkedInAt is no path of ticketSchema
   and is not stored. *)
VerifySave(p) ==
  /\ procs[p].pc = "v_save"
  /\ ~TicketLocked(procs[p].ticket)
  /\ UNCHANGED <<events, nreq, harness>>
  /\ tickets' = [tickets EXCEPT ![procs[p].ticket].status = "checked-in"]
  /\ procs' = MarkTicketStale(
                [procs EXCEPT ![p] = Respond(@, 200, "Ticket verified successfully", NoError)],
                p, procs[p].ticket)

-----------------------------------------------------------------------------
(* The system.  The steps of the two cancellation handlers that follow the
   ownership check (CancelSeatSave, CancelSaveEvent, CancelSaveTicket,
   CancelCommit) are no steps of the system: the check compares the string
   of an id with req.user.id, an ObjectId, by !==, so it answers 403 to
   every requester and the rest of the handler is never run. *)

TicketInputs == 1..(Len(tickets) + 1)

Next ==
  \/ \E p \in Procs, u \in Requesters, n \in MinTotalSeats..MaxCreateSeats, pr \in Prices :
       CreateEvent(p, u, n, pr)
  \/ \E p \in Procs, u \in Requesters, e \in EventIds, b \in UpdateBodies :
       UpdateEvent(p, u, e, b)
  \/ \E p \in Procs, u \in Requesters, e \in EventIds : DeleteEvent(p, u, e)
  \/ \E e \in EventIds : DatePasses(e)
  \/ \E p \in Procs, u \in Users, e \in EventIds, s \in SeatInputs : ReserveSeatRead(p, u, e, s)
  \/ \E p \in Procs : ReserveSeatSave(p)
  \/ \E p \in Procs, u \in Users, e \in EventIds, s \in SeatInputs : CancelSeatRead(p, u, e, s)
  \/ \E p \in Procs, u \in Users, e \in EventIds, s \in SeatInputs : BookRead(p, u, e, s)
  \/ \E p \in Procs : BookSaveTicket(p)
  \/ \E p \in Procs : BookSaveEvent(p)
  \/ \E p \in Procs : BookCommit(p)
  \/ \E p \in Procs : BookRespond(p)
  \/ \E p \in Procs, u \in Requesters, t \in TicketInputs : CancelRead(p, u, t)
  \/ \E p \in Procs, u \in Requesters, t \in TicketInputs : VerifyRead(p, u, t)
  \/ \E p \in Procs : VerifySave(p)

Spec == Init /\ [][Next]_vars

-----------------------------------------------------------------------------
(* Seat map generation on its own: a new event of every admissible size is
   saved *)

InitSeatMap ==
  /\ events = [e \in EventIds |-> NoDoc]
  /\ tickets = <<>>
  /\ procs = [p \in Procs |-> IdleProc]
  /\ nreq = 0
  /\ \E n \in MinTotalSeats..MaxTotalSeats :
       harness = [op |-> "new", totalSeats |-> n]

SaveNewEvent ==
  /\ harness.op = "new"
  /\ \E pr \in Prices :
       harness' = [op |-> "saved", totalSeats |-> harness.totalSeats,
                   doc |-> PreSave(NewEvent(harness.totalSeats, pr), TRUE)]
  /\ UNCHANGED <<events, tickets, procs, nreq>>

NextSeatMap == SaveNewEvent

SpecSeatMap == InitSeatMap /\ [][NextSeatMap]_vars

-----------------------------------------------------------------------------
(* The Allocator on its own: bookSeat and cancelBooking applied to a loaded
   event whose seats are free (never booked, or released by a ticket
   cancellation) or booked by a user *)

SeatStates ==
  {[isBooked |-> FALSE, bookedBy |-> Undefined, bookingDate |-> Undefined],
   [isBooked |-> FALSE, bookedBy |-> Null, bookingDate |-> Null]}
    \cup {[isBooked |-> TRUE, bookedBy |-> u, bookingDate |-> Now] : u \in Users}

LoadedEvents ==
  UNION {
    {[NewEvent(n, 10) EXCEPT
        !.availableSeats = a,
        !.seats = [i \in 1..n |->
                     [seatNumber |-> GenerateSeats(n)[i].seatNumber,
                      isBooked |-> st[i].isBooked,
                      bookedBy |-> st[i].bookedBy,
                      bookingDate |-> st[i].bookingDate]]]
       : st \in [1..n -> SeatStates], a \in 0..n}
    : n \in MinTotalSeats..AllocSeats}

AllocSeatInputs ==
  {GenerateSeats(AllocSeats)[i].seatNumber : i \in 1..AllocSeats}
    \cup {SeatLabel(RowLetter(25), SeatsPerRow)}

InitAllocator ==
  /\ events = [e \in EventIds |-> NoDoc]
  /\ tickets = <<>>
  /\ procs = [p \in Procs |-> IdleProc]
  /\ nreq = 0
  /\ \E d \in LoadedEvents, s \in AllocSeatInputs, u \in Users :
       harness = [op |-> "loaded", doc |-> d, seat |-> s, user |-> u]

AllocBook ==
  /\ harness.op = "loaded"
  /\ harness' = [op |-> "bookSeat", before |-> harness.doc, seat |-> harness.seat,
                 user |-> harness.user,
                 result |-> bookSeat(harness.doc, harness.seat, harness.user)]
  /\ UNCHANGED <<events, tickets, procs, nreq>>

AllocCancel ==
  /\ harness.op = "loaded"
  /\ harness' = [op |-> "cancelBooking", before |-> harness.doc, seat |-> harness.seat,
                 user |-> harness.user,
                 result |-> cancelBooking(harness.doc, harness.seat)]
  /\ UNCHANGED <<events, tickets, procs, nreq>>

NextAllocator == AllocBook \/ AllocCancel

SpecAllocator == InitAllocator /\ [][NextAllocator]_vars

-----------------------------------------------------------------------------
(* Views of the persisted state used by the properties *)

TicketIds == 1..Len(tickets)

Live(t) == tickets[t].status \in {"booked", "checked-in"}

(* The tickets that hold seat s of event e *)
Holders(e, s) ==
  {t \in TicketIds : tickets[t].event = e /\ tickets[t].seatNumber = s /\ Live(t)}

BookedTickets(e, s) ==
  {t \in TicketIds : /\ tickets[t].event = e
                     /\ tickets[t].seatNumber = s
                     /\ tickets[t].status = "booked"}

SeatIndexes(e) == 1..Len(events[e].seats)

BookedSeats(e) == {i \in SeatIndexes(e) : events[e].seats[i].isBooked}

(* Seat s of event e as stored, when the event has it *)
HasSeat(e, s) == Exists(e) /\ \E i \in SeatIndexes(e) : events[e].seats[i].seatNumber = s

SeatOf(e, s) == events[e].seats[CHOOSE i \in SeatIndexes(e) : events[e].seats[i].seatNumber = s]

BookPcs == {"b_saveTicket", "b_saveEvent", "b_commit"}

-----------------------------------------------------------------------------
(* C1: single ownership: for every event E and seat label S at most one
   ticket whose status is booked or checked-in references (E, S). *)
C1_SingleOwnership ==
  \A e \in EventIds, s \in SeatInputs : Cardinality(Holders(e, s)) <= 1

C1_Witness ==
  \E p \in Procs, t \in TicketIds :
    /\ procs[p].kind = "book" /\ procs[p].pc = "idle"
    /\ procs[p].resp.message = "Seat already booked"
    /\ tickets[t].event = procs[p].event
    /\ tickets[t].seatNumber = procs[p].seat
    /\ tickets[t].user # procs[p].user
    /\ Live(t)

(* C2: when two booking requests for the same free seat run concurrently,
   the one that does not succeed observes "Seat already booked" (or "You
   already booked this seat"): when a booking that saw the seat free comes
   to save the event while the other booking of the same seat has written
   it, and nothing else has written the event since its snapshot, then
   unless a database fault or a validation failure ends it, it is answered
   with one of the two messages. *)
C2_LoserObservesSeatAlreadyBooked ==
  [][\A p, q \in Procs :
       ( /\ p # q
         /\ procs[p].kind = "book" /\ procs[p].pc = "b_commit"
         /\ procs[q].kind = "book" /\ procs[q].pc = "b_saveEvent"
         /\ procs[q].stale = {}
         /\ procs[p].event = procs[q].event
         /\ procs[p].seat = procs[q].seat
         /\ procs'[q].pc = "idle"
         /\ procs'[q].error \notin {"Fault", "ValidationError"} )
       => procs'[q].resp.message \in {"Seat already booked", "You already booked this seat"}
    ]_vars

(* The part of C2 that the transaction does give: of two bookings of the
   same seat that are in flight together at most one commits, so one ticket
   is created and availableSeats goes down once. *)
C2_NeverBothCommit ==
  [][\A p, q \in Procs :
       ( /\ p # q
         /\ procs[q].kind = "book" /\ procs[q].pc \in BookPcs
         /\ procs[p].kind = "book" /\ procs[p].pc \in BookPcs
         /\ procs[p].event = procs[q].event
         /\ procs[p].seat = procs[q].seat
         /\ procs'[p].pc = "b_respond" )
       => /\ Len(tickets') = Len(tickets) + 1
          /\ events'[procs[p].event].availableSeats
               = events[procs[p].event].availableSeats - 1
          /\ procs'[q].pc \in BookPcs
          /\ "event" \in procs'[q].stale
    ]_vars

(* C3: counter consistency: every event has
   availableSeats = totalSeats - (number of seats with isBooked). *)
C3_CounterConsistency ==
  \A e \in EventIds :
    Exists(e) =>
      events[e].availableSeats = events[e].totalSeats - Cardinality(BookedSeats(e))

(* C4: atomicity: no ticket with status booked exists whose seat is not
   booked, and a booking that committed its seat has its ticket in the
   ledger. *)
C4_Atomicity ==
  /\ \A t \in TicketIds :
       tickets[t].status = "booked" =>
         /\ HasSeat(tickets[t].event, tickets[t].seatNumber)
         /\ SeatOf(tickets[t].event, tickets[t].seatNumber).isBooked
  /\ \A p \in Procs :
       (procs[p].kind = "book" /\ procs[p].pc = "b_respond") =>
         /\ procs[p].ticket \in TicketIds
         /\ tickets[procs[p].ticket].seatNumber = procs[p].seat
         /\ tickets[procs[p].ticket].user = procs[p].user

C4_Witness ==
  \E p \in Procs :
    /\ procs[p].kind = "book" /\ procs[p].pc = "idle"
    /\ procs[p].error = "Fault" /\ procs[p].resp.status = 500
    /\ Holders(procs[p].event, procs[p].seat) = {}
    /\ HasSeat(procs[p].event, procs[p].seat)
    /\ ~SeatOf(procs[p].event, procs[p].seat).isBooked
    /\ \E t \in TicketIds : tickets[t].status = "booked"

(* The part of C4 about faults: a booking or a cancellation that hits a
   database fault before its commit leaves events and tickets as they
   were. *)
C4_FaultLeavesNothing ==
  [][\A p \in Procs :
       (procs[p].pc \in TxnPcs /\ procs'[p].pc = "idle" /\ procs'[p].error = "Fault")
         => (events' = events /\ tickets' = tickets)
    ]_vars

(* C5: booked tickets and booked seats correspond 1:1: the seat of every
   booked ticket is booked by the ticket's user, and every booked seat has
   exactly one booked ticket. *)
C5_TicketSeatCorrespondence ==
  /\ \A t \in TicketIds :
       tickets[t].status = "booked" =>
         /\ HasSeat(tickets[t].event, tickets[t].seatNumber)
         /\ SeatOf(tickets[t].event, tickets[t].seatNumber).isBooked
         /\ SeatOf(tickets[t].event, tickets[t].seatNumber).bookedBy = tickets[t].user
  /\ \A e \in EventIds :
       Exists(e) =>
         \A i \in BookedSeats(e) :
           Cardinality(BookedTickets(e, events[e].seats[i].seatNumber)) = 1

(* C6: the seat map is changed only by the booking and the ticket
   cancellation: every step that changes a seat's isBooked or bookedBy
   creates a ticket for that seat or cancels one. *)
C6_SeatsChangeOnlyWithTickets ==
  [][\A e \in EventIds :
       (Exists(e) /\ events'[e] # NoDoc) =>
         \A i \in SeatIndexes(e) :
           ( \/ events'[e].seats[i].isBooked # events[e].seats[i].isBooked
             \/ events'[e].seats[i].bookedBy # events[e].seats[i].bookedBy )
           => \/ /\ Len(tickets') = Len(tickets) + 1
                 /\ tickets'[Len(tickets')].event = e
                 /\ tickets'[Len(tickets')].seatNumber = events[e].seats[i].seatNumber
                 /\ tickets'[Len(tickets')].status = "booked"
              \/ \E t \in TicketIds :
                   /\ tickets[t].event = e
                   /\ tickets[t].seatNumber = events[e].seats[i].seatNumber
                   /\ tickets[t].status # "cancelled"
                   /\ tickets'[t].status = "cancelled"
    ]_vars

(* C7: for every totalSeats = n in 1..1000 the saved event has n seats, seat
   k (counted from 0) labelled with the letter of row k div 10, counted from
   'A', and the index k mod 10 + 1, every seat unbooked, and
   availableSeats = n. *)
IsLetter(charCode) == charCode \in (65..90) \cup (97..122)

C7_SeatMapGeneration ==
  harness.op = "saved" =>
    LET n == harness.totalSeats
        doc == harness.doc
    IN /\ Len(doc.seats) = n
       /\ doc.availableSeats = n
       /\ \A k \in 0..(n - 1) :
            /\ doc.seats[k + 1].seatNumber[1] = 65 + (k \div 10)
            /\ IsLetter(doc.seats[k + 1].seatNumber[1])
            /\ doc.seats[k + 1].seatNumber[2] = (k % 10) + 1
            /\ doc.seats[k + 1].isBooked = FALSE

(* C8: bookSeat fails with "Seat not found" when no seat has the label and
   with "Seat already booked" when the seat is booked, whoever holds it,
   leaving the event as it was; otherwise it sets isBooked, bookedBy = user
   and bookingDate = now on that seat only and takes 1 off availableSeats. *)
C8_AllocatorBook ==
  harness.op = "bookSeat" =>
    LET b == harness.before
        r == harness.result
        hit == {i \in 1..Len(b.seats) : b.seats[i].seatNumber = harness.seat}
    IN /\ hit = {} => (r.error = "Seat not found" /\ r.doc = b)
       /\ \A i \in hit :
            IF b.seats[i].isBooked
            THEN r.error = "Seat already booked" /\ r.doc = b
            ELSE /\ r.error = NoError
                 /\ r.doc.seats[i] = [seatNumber |-> harness.seat, isBooked |-> TRUE,
                                      bookedBy |-> harness.user, bookingDate |-> Now]
                 /\ \A j \in 1..Len(b.seats) : j # i => r.doc.seats[j] = b.seats[j]
                 /\ Len(r.doc.seats) = Len(b.seats)
                 /\ r.doc.availableSeats = b.availableSeats - 1
                 /\ r.doc.totalSeats = b.totalSeats
                 /\ r.doc.price = b.price
                 /\ r.doc.isActive = b.isActive

C8_Witness ==
  /\ harness.op = "bookSeat"
  /\ harness.result.error = NoError
  /\ harness.result.doc.availableSeats = harness.before.availableSeats - 1
  /\ \E j \in 1..Len(harness.before.seats) :
       /\ harness.before.seats[j].isBooked
       /\ harness.before.seats[j].bookedBy # harness.user

(* C9: cancelBooking fails with "Seat not found" when no seat has the label
   and with "Seat is not booked" when the seat is free, leaving the event as
   it was; otherwise it clears isBooked, bookedBy and bookingDate on that
   seat only and adds 1 to availableSeats. *)
C9_AllocatorCancel ==
  harness.op = "cancelBooking" =>
    LET b == harness.before
        r == harness.result
        hit == {i \in 1..Len(b.seats) : b.seats[i].seatNumber = harness.seat}
    IN /\ hit = {} => (r.error = "Seat not found" /\ r.doc = b)
       /\ \A i \in hit :
            IF ~b.seats[i].isBooked
            THEN r.error = "Seat is not booked" /\ r.doc = b
            ELSE /\ r.error = NoError
                 /\ r.doc.seats[i].seatNumber = harness.seat
                 /\ r.doc.seats[i].isBooked = FALSE
                 /\ r.doc.seats[i].bookedBy \in {Undefined, Null}
                 /\ r.doc.seats[i].bookingDate \in {Undefined, Null}
                 /\ \A j \in 1..Len(b.seats) : j # i => r.doc.seats[j] = b.seats[j]
                 /\ Len(r.doc.seats) = Len(b.seats)
                 /\ r.doc.availableSeats = b.availableSeats + 1
                 /\ r.doc.totalSeats = b.totalSeats
                 /\ r.doc.price = b.price
                 /\ r.doc.isActive = b.isActive

C9_Witness ==
  /\ harness.op = "cancelBooking"
  /\ harness.result.error = NoError
  /\ harness.result.doc.availableSeats = harness.before.availableSeats + 1
  /\ \E j \in 1..Len(harness.before.seats) :
       /\ harness.before.seats[j].isBooked
       /\ harness.before.seats[j].seatNumber # harness.seat

(* C10: ticket lifecycle: a ticket enters the ledger as booked, and once it
   is checked-in or cancelled its status does not change again. *)
C10_TerminalStatus ==
  [][/\ \A t \in TicketIds :
          tickets[t].status \in {"checked-in", "cancelled"}
            => tickets'[t].status = tickets[t].status
     /\ \A t \in 1..Len(tickets') :
          t > Len(tickets) => tickets'[t].status = "booked"
    ]_vars

C10_Witness ==
  \E p \in Procs :
    /\ procs[p].kind = "verify" /\ procs[p].pc = "idle"
    /\ procs[p].resp.message = "Ticket is checked-in"
    /\ tickets[procs[p].ticket].status = "checked-in"

(* The step in which slot p takes a request of a ticket route and runs its
   handler up to the first write: the slot then holds the arguments *)
BookStarts(p) ==
  /\ procs[p].pc = "idle" /\ nreq' = nreq + 1 /\ procs'[p].kind = "book"
  /\ BookRead(p, procs'[p].user, procs'[p].event, procs'[p].seat)

CancelStarts(p) ==
  /\ procs[p].pc = "idle" /\ nreq' = nreq + 1 /\ procs'[p].kind = "cancel"
  /\ CancelRead(p, procs'[p].user, procs'[p].ticket)

VerifyStarts(p) ==
  /\ procs[p].pc = "idle" /\ nreq' = nreq + 1 /\ procs'[p].kind = "verify"
  /\ VerifyRead(p, procs'[p].user, procs'[p].ticket)

(* C11: the ticket cancellation is answered Forbidden exactly when the
   requester is neither the owner of the ticket nor an admin: the owner and
   any admin get past the check on a booked ticket, and a rejected request
   leaves tickets and events as they were. *)
C11_ForbiddenIffNotOwnerNorAdmin ==
  [][\A p \in Procs :
       (CancelStarts(p) /\ procs'[p].ticket \in TicketIds) =>
         LET u == procs'[p].user
             t == procs'[p].ticket
         IN /\ (procs'[p].resp.status = 403)
                 <=> (tickets[t].user # u /\ Role(u) # "admin")
            /\ (tickets[t].status = "booked" /\ (tickets[t].user = u \/ Role(u) = "admin"))
                 => procs'[p].pc # "idle"
            /\ (procs'[p].resp.status = 403)
                 => (events' = events /\ tickets' = tickets)
    ]_vars

(* The non-cancelled tickets of user u for seat s of event e *)
LiveTickets(e, u, s) ==
  {t \in TicketIds : /\ tickets[t].event = e
                     /\ tickets[t].user = u
                     /\ tickets[t].seatNumber = s
                     /\ Live(t)}

(* C12 as stated: a booking request for (event, user, seat) made while a
   booked or checked-in ticket exists for the triple is answered with the
   duplicate-booking error, whatever the seat map holds. *)
C12_DuplicateBookingWhateverSeatMap ==
  [][\A p \in Procs :
       ( /\ BookStarts(p)
         /\ LiveTickets(procs'[p].event, procs'[p].user, procs'[p].seat) # {} )
         => /\ procs'[p].pc = "idle"
            /\ procs'[p].resp.message = "You already booked this seat"
    ]_vars

(* C12 as amended: a booking request for (event, user, seat) made while a
   booked or checked-in ticket exists for the triple never succeeds: it ends
   at the precondition checks with nothing written, on an active event that
   has not occurred with "Seat already booked" (the seat of such a ticket is
   booked and the seat is checked before the tickets are looked up); and no
   booking commits while such a ticket exists. *)
C12_NoBookingOverLiveTicket ==
  [][/\ \A p \in Procs :
          ( /\ BookStarts(p)
            /\ LiveTickets(procs'[p].event, procs'[p].user, procs'[p].seat) # {} )
            => /\ procs'[p].pc = "idle"
               /\ procs'[p].resp.status \in {400, 404}
               /\ (events[procs'[p].event].isActive /\ ~events[procs'[p].event].occurred)
                    => procs'[p].resp.message = "Seat already booked"
               /\ events' = events /\ tickets' = tickets
     /\ \A p \in Procs :
          (procs[p].pc = "b_commit" /\ procs'[p].pc = "b_respond")
            => LiveTickets(procs[p].event, procs[p].user, procs[p].seat) = {}
    ]_vars

C12_Witness ==
  \E p \in Procs :
    /\ procs[p].kind = "book" /\ procs[p].pc = "idle"
    /\ procs[p].resp.message = "Seat already booked"
    /\ \E t \in LiveTickets(procs[p].event, procs[p].user, procs[p].seat) :
         tickets[t].status = "checked-in"

(* C13: the booking handler reports the first precondition that fails, in
   this order: event missing or inactive, event already occurred, seat
   missing, seat booked, a booked ticket of the user for the seat; when none
   fails it goes on to the writes. *)
C13_FirstFailureWins ==
  [][\A p \in Procs :
       BookStarts(p) =>
         LET u == procs'[p].user
             e == procs'[p].event
             s == procs'[p].seat
             ended == procs'[p].pc = "idle"
             answer == procs'[p].resp
         IN IF ~Exists(e) \/ ~events[e].isActive
            THEN ended /\ answer = [status |-> 404, message |-> "Event not found or not active"]
            ELSE IF events[e].occurred
            THEN ended /\ answer = [status |-> 400, message |-> "Event has already occurred"]
            ELSE IF ~HasSeat(e, s)
            THEN ended /\ answer = [status |-> 400, message |-> "Seat not found"]
            ELSE IF SeatOf(e, s).isBooked
            THEN ended /\ answer = [status |-> 400, message |-> "Seat already booked"]
            ELSE IF \E t \in BookedTickets(e, s) : tickets[t].user = u
            THEN ended /\ answer = [status |-> 400, message |-> "You already booked this seat"]
            ELSE procs'[p].pc = "b_saveTicket"
    ]_vars

C13_Witness ==
  \E p \in Procs :
    /\ procs[p].kind = "book" /\ procs[p].pc = "idle"
    /\ procs[p].resp.message = "Event has already occurred"
    /\ Exists(procs[p].event)
    /\ ~HasSeat(procs[p].event, procs[p].seat)

(* C14: a verification succeeds only on a ticket whose status is booked at
   that moment and moves it to checked-in; on a ticket that is checked-in or
   cancelled it is answered with the status error and changes nothing. *)
C14_VerifyOnlyBooked ==
  [][/\ \A p \in Procs :
          ( /\ VerifyStarts(p)
            /\ Role(procs'[p].user) = "admin"
            /\ procs'[p].ticket \in TicketIds
            /\ tickets[procs'[p].ticket].status # "booked" )
            => /\ procs'[p].pc = "idle"
               /\ procs'[p].resp.status = 400
               /\ tickets' = tickets /\ events' = events
     /\ \A p \in Procs :
          ( /\ procs[p].kind = "verify" /\ procs[p].pc = "v_save"
            /\ procs'[p].pc = "idle" /\ procs'[p].resp.status = 200 )
            => /\ tickets[procs[p].ticket].status = "booked"
               /\ tickets'[procs[p].ticket].status = "checked-in"
    ]_vars

(* Seat s of event e in the collection evs, which has it *)
SeatIn(evs, e, s) == evs[e].seats[FindSeat(evs[e].seats, s)]

(* C15: cancel-then-rebook: when the owner's cancellation of a booked ticket
   for seat S has been answered, the ticket is cancelled, S is unbooked with
   no owner and availableSeats is back up by the 1 the booking took; and a
   booking of S by another user, on an active event that has not occurred,
   then passes the checks when every ticket for S is cancelled. *)
C15_CancelThenRebook ==
  [][/\ \A p \in Procs :
          ( /\ CancelStarts(p)
            /\ procs'[p].ticket \in TicketIds
            /\ tickets[procs'[p].ticket].user = procs'[p].user
            /\ tickets[procs'[p].ticket].status = "booked"
            /\ HasSeat(tickets[procs'[p].ticket].event, tickets[procs'[p].ticket].seatNumber)
            /\ procs'[p].pc = "idle" )
            => LET t == procs'[p].ticket
                   e == tickets[t].event
                   S == tickets[t].seatNumber
               IN /\ tickets'[t].status = "cancelled"
                  /\ ~SeatIn(events', e, S).isBooked
                  /\ SeatIn(events', e, S).bookedBy \in {Null, Undefined}
                  /\ events'[e].availableSeats = events[e].availableSeats + 1
     /\ \A p \in Procs :
          ( /\ BookStarts(p)
            /\ Exists(procs'[p].event)
            /\ events[procs'[p].event].isActive /\ ~events[procs'[p].event].occurred
            /\ \E t \in TicketIds :
                 /\ tickets[t].event = procs'[p].event
                 /\ tickets[t].seatNumber = procs'[p].seat
                 /\ tickets[t].user # procs'[p].user
            /\ Holders(procs'[p].event, procs'[p].seat) = {}
            /\ BookedTickets(procs'[p].event, procs'[p].seat) = {} )
            => procs'[p].pc = "b_saveTicket"
    ]_vars

(* C16: repeated cancellation: when the owner of a ticket asks again for
   its cancellation after an earlier cancellation request of the owner for
   the same ticket was answered without a server error, the request is
   answered "Ticket already cancelled" and changes nothing; and no request
   that finds the ticket cancelled releases a seat or changes
   availableSeats. *)
C16_SecondCancelAlreadyCancelled ==
  [][\A p \in Procs :
       (CancelStarts(p) /\ procs'[p].ticket \in TicketIds) =>
         LET t == procs'[p].ticket
             u == procs'[p].user
         IN /\ ( /\ tickets[t].user = u
                 /\ \E q \in Procs \ {p} :
                      /\ procs[q].kind = "cancel" /\ procs[q].pc = "idle"
                      /\ procs[q].ticket = t /\ procs[q].user = u
                      /\ procs[q].error = NoError )
                 => /\ procs'[p].pc = "idle"
                    /\ procs'[p].resp = [status |-> 400, message |-> "Ticket already cancelled"]
                    /\ events' = events /\ tickets' = tickets
            /\ tickets[t].status = "cancelled"
                 => /\ procs'[p].pc = "idle"
                    /\ events' = events /\ tickets' = tickets
    ]_vars

(* C17: whenever the totalSeats of an event is set (the event is created)
   or changed (an update gives another value), seat-map generation runs:
   afterwards the event has exactly totalSeats seats, all of them unbooked,
   and availableSeats = totalSeats. *)
C17_TotalSeatsChangeRegenerates ==
  [][\A e \in EventIds :
       ( /\ events'[e] # NoDoc
         /\ \/ events[e] = NoDoc
            \/ events'[e].totalSeats # events[e].totalSeats )
         => /\ Len(events'[e].seats) = events'[e].totalSeats
            /\ \A i \in 1..Len(events'[e].seats) : ~events'[e].seats[i].isBooked
            /\ events'[e].availableSeats = events'[e].totalSeats
    ]_vars

(* C18: a booking, cancellation or verification request that is answered
   with a precondition failure (status 400, 403 or 404) leaves the stored
   events and tickets exactly as they were: the step that answers it writes
   nothing, and none of its earlier steps has written anything. *)
C18_PreconditionFailureWritesNothing ==
  [][\A p \in Procs :
       ( /\ procs'[p].kind \in {"book", "cancel", "verify"}
         /\ procs'[p].pc = "idle"
         /\ procs'[p].resp.status \in {400, 403, 404}
         /\ \/ BookStarts(p) \/ CancelStarts(p) \/ VerifyStarts(p)
            \/ procs[p].pc # "idle" )
         => /\ events' = events
            /\ tickets' = tickets
            /\ procs[p].pc # "idle" => procs[p].pc \in {"b_saveTicket", "b_saveEvent", "b_commit"}
    ]_vars

C18_Witness ==
  \E p, q \in Procs :
    /\ procs[p].kind = "cancel" /\ procs[p].pc = "idle"
    /\ procs[p].resp.status = 403
    /\ procs[q].kind = "book" /\ procs[q].pc = "idle"
    /\ procs[q].resp = [status |-> 400, message |-> "Seat not found"]
    /\ procs[p].ticket \in TicketIds

(* C19: when a booking request ends, either it is answered 201 and its
   ticket is in the ledger with its seat booked, or the caller is answered
   with an error (400, 404 or 500) and neither its ticket nor its seat change
   is committed (the request has written no ticket, and the step that ends it
   writes nothing). *)
C19_ErrorIffNothingCommitted ==
  [][\A p \in Procs :
       ( /\ procs[p].kind = "book" /\ procs[p].pc # "idle"
         /\ procs'[p].pc = "idle" )
         => IF procs'[p].resp.status = 201
            THEN /\ procs[p].ticket \in 1..Len(tickets')
                 /\ tickets'[procs[p].ticket].user = procs[p].user
                 /\ tickets'[procs[p].ticket].seatNumber = procs[p].seat
            ELSE /\ procs'[p].resp.status \in {400, 404, 500}
                 /\ procs[p].ticket = 0
                 /\ tickets' = tickets /\ events' = events
    ]_vars

(* C20: when the cancellation request of the owner of a booked ticket, or of
   an admin, has been answered without a server error, the ticket is stored
   with status cancelled and a cancellation timestamp, whether or not its
   event and seat are still there. *)
C20_AuthorizedCancelEndsCancelled ==
  [][\A p \in Procs :
       ( /\ CancelStarts(p)
         /\ procs'[p].ticket \in TicketIds
         /\ tickets[procs'[p].ticket].status = "booked"
         /\ \/ tickets[procs'[p].ticket].user = procs'[p].user
            \/ Role(procs'[p].user) = "admin"
         /\ procs'[p].pc = "idle"
         /\ procs'[p].error = NoError )
         => /\ tickets'[procs'[p].ticket].status = "cancelled"
            /\ "cancelledAt" \in DOMAIN tickets'[procs'[p].ticket]
    ]_vars

(* A value that JavaScript counts as no value *)
IsNull(v) == v \in {Null, Undefined}

(* The three booking fields of a seat agree *)
TripleAgrees(seat) ==
  /\ seat.isBooked <=> ~IsNull(seat.bookedBy)
  /\ seat.isBooked <=> ~IsNull(seat.bookingDate)

(* C21: seat triple: in every state every seat of every stored event, and of
   every event document a handler has loaded and changed, has bookedBy set
   if and only if isBooked is true if and only if bookingDate is set. *)
C21_SeatTriple ==
  /\ \A e \in EventIds :
       Exists(e) => \A i \in SeatIndexes(e) : TripleAgrees(events[e].seats[i])
  /\ \A p \in Procs :
       procs[p].doc # NoDoc =>
         \A i \in 1..Len(procs[p].doc.seats) : TripleAgrees(procs[p].doc.seats[i])

C21_Witness ==
  \E e \in EventIds, p, q \in Procs :
    /\ Exists(e)
    /\ procs[p].kind = "reserve" /\ procs[p].resp.status = 200 /\ procs[p].pc = "idle"
    /\ procs[q].kind = "book" /\ procs[q].resp.status = 201 /\ procs[q].pc = "idle"
    /\ \E i, j \in SeatIndexes(e) :
         /\ i # j
         /\ events[e].seats[i].isBooked /\ events[e].seats[i].bookedBy \in Users
         /\ events[e].seats[j].isBooked /\ events[e].seats[j].bookingDate = Now

(* C22: the price of a ticket is the price of its event at the moment the
   booking commits, and no later step changes it: not an update of the
   event's price, not a cancellation, not a verification. *)
C22_TicketPriceCaptured ==
  [][/\ \A p \in Procs :
          (procs[p].pc = "b_commit" /\ procs'[p].pc = "b_respond")
            => /\ Len(tickets') = Len(tickets) + 1
               /\ tickets'[Len(tickets')].price = events[procs[p].event].price
               /\ tickets'[Len(tickets')].price = events'[procs[p].event].price
     /\ \A t \in TicketIds :
          t \in 1..Len(tickets') /\ tickets'[t].price = tickets[t].price
    ]_vars

C22_Witness ==
  \E t \in TicketIds, p, q \in Procs :
    /\ tickets[t].price # events[tickets[t].event].price
    /\ tickets[t].status = "checked-in"
    /\ procs[p].kind = "update" /\ procs[p].resp.status = 200
    /\ procs[q].kind = "verify" /\ procs[q].resp.status = 200

(* The step in which slot p takes a delete request and runs its handler *)
DeleteStarts(p) ==
  /\ procs[p].pc = "idle" /\ nreq' = nreq + 1 /\ procs'[p].kind = "delete"
  /\ DeleteEvent(p, procs'[p].user, procs'[p].event)

(* C23: soft delete: a delete request changes nothing but the active flag
   of its event, which an answered deletion leaves false: the event record,
   its seats, availableSeats and every ticket stay as they were, and every
   ticket keeps referencing a stored event; a booking request made for an
   event whose active flag is false is answered "Event not found or not
   active" and writes nothing. *)
C23_SoftDelete ==
  [][/\ \A p \in Procs :
          DeleteStarts(p) =>
            LET e == procs'[p].event IN
            /\ tickets' = tickets
            /\ \A d \in EventIds \ {e} : events'[d] = events[d]
            /\ Exists(e) =>
                 /\ events'[e] # NoDoc
                 /\ events'[e] = [events[e] EXCEPT !.isActive = events'[e].isActive]
                 /\ procs'[p].resp.status = 200 => ~events'[e].isActive
                 /\ procs'[p].resp.status # 200 => events'[e] = events[e]
     /\ \A p \in Procs :
          ( /\ BookStarts(p)
            /\ Exists(procs'[p].event)
            /\ ~events[procs'[p].event].isActive )
            => /\ procs'[p].pc = "idle"
               /\ procs'[p].resp = [status |-> 404, message |-> "Event not found or not active"]
               /\ events' = events /\ tickets' = tickets
     /\ \A t \in 1..Len(tickets') : events'[tickets'[t].event] # NoDoc
    ]_vars

C23_Witness ==
  \E p, q \in Procs, t \in TicketIds :
    /\ procs[p].kind = "delete" /\ procs[p].pc = "idle" /\ procs[p].resp.status = 200
    /\ procs[q].kind = "book" /\ procs[q].pc = "idle"
    /\ procs[q].resp.message = "Event not found or not active"
    /\ procs[q].event = procs[p].event
    /\ Exists(procs[p].event) /\ ~events[procs[p].event].isActive
    /\ tickets[t].event = procs[p].event /\ tickets[t].status = "booked"
    /\ SeatOf(tickets[t].event, tickets[t].seatNumber).isBooked

(* C24: every booking, cancellation and verification request completes with
   a response, a success or an error, also when a write conflicts, the
   transaction aborts or a step after the commit fails: no handler of these
   routes comes to its end, at its first step or at a later one, without
   having answered. *)
C24_EveryRequestAnswered ==
  [][\A p \in Procs :
       ( /\ procs'[p].kind \in {"book", "cancel", "verify"}
         /\ procs'[p].pc = "idle"
         /\ \/ BookStarts(p) \/ CancelStarts(p) \/ VerifyStarts(p)
            \/ procs[p].pc # "idle" )
         => procs'[p].resp.status \in {200, 201, 400, 403, 404, 500}
    ]_vars

(* C25: the seat transition of the booking handler is that of bookSeat: for
   a booking request on an active event that has not occurred, when bookSeat
   on the stored event with the same label and user fails, the handler
   answers 400 with the same error and writes nothing; when it succeeds, the
   handler either stops at the ticket lookup that follows the seat check or
   holds the event document that bookSeat yields (same seat fields, same
   availableSeats). *)
C25_CoordinatorSeatStepIsBookSeat ==
  [][\A p \in Procs :
       ( /\ BookStarts(p)
         /\ Exists(procs'[p].event)
         /\ events[procs'[p].event].isActive
         /\ ~events[procs'[p].event].occurred )
         => LET b == bookSeat(events[procs'[p].event], procs'[p].seat, procs'[p].user) IN
            IF b.error # NoError
            THEN /\ procs'[p].pc = "idle"
                 /\ procs'[p].resp = [status |-> 400, message |-> b.error]
                 /\ events' = events /\ tickets' = tickets
            ELSE \/ /\ procs'[p].pc = "idle"
                    /\ procs'[p].resp.message = "You already booked this seat"
                 \/ /\ procs'[p].pc = "b_saveTicket"
                    /\ procs'[p].doc = b.doc
    ]_vars

C25_Witness ==
  \E p \in Procs :
    /\ procs[p].kind = "book" /\ procs[p].pc = "b_saveTicket"
    /\ bookSeat(events[procs[p].event], procs[p].seat, procs[p].user).error = NoError
    /\ procs[p].doc = bookSeat(events[procs[p].event], procs[p].seat, procs[p].user).doc
    /\ \E j \in 1..Len(procs[p].doc.seats) :
         /\ procs[p].doc.seats[j].isBooked
         /\ procs[p].doc.seats[j].bookedBy # procs[p].user

(* C26: the read-check-write of a seat is not interleaved with another
   writer of the same seat: a reserve-seat request that is answered 200, and
   a ticket booking that commits, takes a seat that is still free in the
   stored event at that moment, leaves it booked by its own user and takes
   exactly 1 off the stored availableSeats; so of two concurrent requests
   for one free seat at most one succeeds. *)
C26_AllocatorNotInterleaved ==
  [][\A p \in Procs :
       ( \/ /\ procs[p].pc = "r_save"
             /\ procs'[p].pc = "idle" /\ procs'[p].resp.status = 200
          \/ /\ procs[p].pc = "b_commit"
             /\ procs'[p].pc = "b_respond" )
         => LET e == procs[p].event
                S == procs[p].seat
            IN /\ ~SeatIn(events, e, S).isBooked
               /\ SeatIn(events', e, S).isBooked
               /\ SeatIn(events', e, S).bookedBy = procs[p].user
               /\ events'[e].availableSeats = events[e].availableSeats - 1
    ]_vars

(* C27: the cancellation of a booked ticket T for seat S of event E by its
   owner, when S is held by another user than the user of T or is free,
   cancels T and releases nothing: once it is answered the ticket is
   cancelled, and the seat and availableSeats of E are as they were. *)
C27_CancelReleasesOnlyOwnSeat ==
  [][\A p \in Procs :
       ( /\ CancelStarts(p)
         /\ procs'[p].ticket \in TicketIds
         /\ tickets[procs'[p].ticket].user = procs'[p].user
         /\ tickets[procs'[p].ticket].status = "booked"
         /\ HasSeat(tickets[procs'[p].ticket].event, tickets[procs'[p].ticket].seatNumber)
         /\ \/ ~SeatOf(tickets[procs'[p].ticket].event,
                        tickets[procs'[p].ticket].seatNumber).isBooked
            \/ SeatOf(tickets[procs'[p].ticket].event,
                       tickets[procs'[p].ticket].seatNumber).bookedBy
                 # tickets[procs'[p].ticket].user
         /\ procs'[p].pc = "idle" )
         => LET t == procs'[p].ticket
                e == tickets[t].event
                S == tickets[t].seatNumber
            IN /\ tickets'[t].status = "cancelled"
               /\ SeatIn(events', e, S) = SeatIn(events, e, S)
               /\ events'[e].availableSeats = events[e].availableSeats
    ]_vars

(* C28: counter bounds: in every state every stored event has
   0 <= availableSeats <= totalSeats. *)
C28_CounterBounds ==
  \A e \in EventIds :
    Exists(e) =>
      /\ 0 <= events[e].availableSeats
      /\ events[e].availableSeats <= events[e].totalSeats

(* C29: a verification and a cancellation of the same booked ticket: exactly
   one of them takes effect and the later one fails on the status the other
   has set.  No ticket is checked-in or cancelled in two ways at once: a
   checked-in ticket has its seat booked; the owner's cancellation of a
   ticket that a verification has checked in is answered with a status error
   (400) and writes nothing; and a verification that comes to its save when
   the ticket has been cancelled does not check it in. *)
C29_VerifyCancelExactlyOne ==
  [][/\ \A t \in TicketIds :
          (tickets[t].status = "checked-in" /\ HasSeat(tickets[t].event, tickets[t].seatNumber))
            => SeatOf(tickets[t].event, tickets[t].seatNumber).isBooked
     /\ \A p \in Procs :
          ( /\ CancelStarts(p)
            /\ procs'[p].ticket \in TicketIds
            /\ tickets[procs'[p].ticket].user = procs'[p].user
            /\ tickets[procs'[p].ticket].status = "checked-in"
            /\ \E q \in Procs \ {p} :
                 /\ procs[q].kind = "verify" /\ procs[q].pc = "idle"
                 /\ procs[q].ticket = procs'[p].ticket
                 /\ procs[q].resp.status = 200 )
            => /\ procs'[p].pc = "idle"
               /\ procs'[p].resp.status = 400
               /\ events' = events /\ tickets' = tickets
     /\ \A p \in Procs :
          ( /\ procs[p].kind = "verify" /\ procs[p].pc = "v_save"
            /\ tickets[procs[p].ticket].status = "cancelled"
            /\ procs'[p].pc = "idle" )
            => /\ procs'[p].resp.status # 200
               /\ tickets' = tickets
    ]_vars

(* The decimal digits of a number in a template literal, as character
   codes *)
RECURSIVE Digits(_)
Digits(n) == IF n < 10 THEN <<48 + n>> ELSE Digits(n \div 10) \o <<48 + (n % 10)>>

(* The string `${rowLetter}-${seat}` of a label: the code unit of the row,
   the hyphen and the digits of the index *)
LabelText(label) == <<label[1], 45>> \o Digits(label[2])

(* C30: for every totalSeats = n in 1..1000 the saved event has exactly n
   seats and their label strings are pairwise distinct, so the lookup by
   label finds, for the label of seat k, seat k and no other (the lookup
   itself is run for the seats of the first row and the first of the
   second). *)
C30_LabelsDistinct ==
  harness.op = "saved" =>
    LET n == harness.totalSeats
        seats == harness.doc.seats
    IN /\ Len(seats) = n
       /\ Cardinality({LabelText(seats[k].seatNumber) : k \in 1..Len(seats)}) = n
       /\ \A k \in 1..Min(n, SeatsPerRow + 1) :
            FindSeat(seats, seats[k].seatNumber) = k

C30_Witness ==
  /\ harness.op = "saved"
  /\ harness.totalSeats = MaxTotalSeats
  /\ Len(harness.doc.seats) = MaxTotalSeats
  /\ harness.doc.seats[MaxTotalSeats].seatNumber = SeatLabel(164, 10)
  /\ LabelText(harness.doc.seats[251].seatNumber) = <<90, 45, 49>>

====
